---- MODULE Spec2Model ----
(***************************************************************************)
(* Model of report.py (starburstdata/benchmark-reports): the column        *)
(* classifier, the group/pivot partitioning of figures and add_barchart,   *)
(* table_entry, read_query and the add_figures / print_report driver.      *)
(*                                                                         *)
(* Python strings are modelled as sequences of one-character strings, so   *)
(* that split, strip, endswith, capitalize, str() and the ordering used by *)
(* sorted() are computed rather than assumed.                              *)
(***************************************************************************)
EXTENDS Integers, Sequences, FiniteSets, TLC

VARIABLES
    name, roles,                                    \* classifier
    columns, rows, result, locals,                  \* figures
    item, css_class, entry,                         \* table_entry
    file, pos, query, title, desc, ret,             \* read_query
    reports, idx, executed, fetched, csv, pc, raised_at, rendered
                                                    \* add_figures / print_report

classify_vars == <<name, roles>>
figures_vars  == <<columns, rows, result, locals>>
table_vars    == <<item, css_class, entry>>
read_vars     == <<file, pos, query, title, desc, ret>>
report_vars   == <<reports, idx, executed, fetched, csv, pc, raised_at, rendered>>
vars == <<classify_vars, figures_vars, table_vars, read_vars, report_vars>>

(***************************************************************************)
(* Bounds of the model.                                                    *)
(***************************************************************************)
MaxTokens  == 2     \* `_`-separated tokens in a column name drawn for the classifier
MaxRows    == 3     \* rows in a result handed to figures
MaxLines   == 7     \* newline-delimited lines in a text cell
MaxFile    == 3     \* lines in a query file
MaxEntries == 3     \* report entries handed to add_figures

(***************************************************************************)
(* Characters and strings.                                                 *)
(***************************************************************************)
NL == "\n"

\* The characters the model uses, in increasing code point order.
Chars ==
    << "\n", " ", "-", ".", "/", "0", "1", "2", "3", "4", "5", "6", "7", "8", "9",
       ":", "<", ">",
       "A", "B", "C", "D", "E", "F", "G", "H", "I", "J", "K", "L", "M",
       "N", "O", "P", "Q", "R", "S", "T", "U", "V", "W", "X", "Y", "Z", "_",
       "a", "b", "c", "d", "e", "f", "g", "h", "i", "j", "k", "l", "m",
       "n", "o", "p", "q", "r", "s", "t", "u", "v", "w", "x", "y", "z" >>

Lower == << "a", "b", "c", "d", "e", "f", "g", "h", "i", "j", "k", "l", "m",
            "n", "o", "p", "q", "r", "s", "t", "u", "v", "w", "x", "y", "z" >>
Upper == << "A", "B", "C", "D", "E", "F", "G", "H", "I", "J", "K", "L", "M",
            "N", "O", "P", "Q", "R", "S", "T", "U", "V", "W", "X", "Y", "Z" >>
Digits == << "0", "1", "2", "3", "4", "5", "6", "7", "8", "9" >>

\* Rank of a character in code point order (what str comparison compares).
Ord(c) == CHOOSE i \in 1..Len(Chars) : Chars[i] = c

ToUpper(c) == IF \E i \in 1..Len(Lower) : Lower[i] = c
              THEN Upper[CHOOSE i \in 1..Len(Lower) : Lower[i] = c] ELSE c
ToLower(c) == IF \E i \in 1..Len(Upper) : Upper[i] = c
              THEN Lower[CHOOSE i \in 1..Len(Upper) : Upper[i] = c] ELSE c

\* str.lower()
StrLower(s) == [i \in 1..Len(s) |-> ToLower(s[i])]

\* str.capitalize(): first character upper-cased, the rest lower-cased
Capitalize(s) == [i \in 1..Len(s) |-> IF i = 1 THEN ToUpper(s[i]) ELSE ToLower(s[i])]

\* s.startswith(p), s.endswith(p)
StartsWith(s, p) == Len(s) >= Len(p) /\ SubSeq(s, 1, Len(p)) = p
EndsWith(s, p)   == Len(s) >= Len(p) /\ SubSeq(s, Len(s) - Len(p) + 1, Len(s)) = p

\* `p in s` for two strings: p occurs in s as a contiguous substring
IsSubstring(p, s) ==
    \E i \in 1..(Len(s) + 1) : i + Len(p) - 1 <= Len(s) /\ SubSeq(s, i, i + Len(p) - 1) = p

\* s.count(c) for a one-character c
Count(s, c) == Cardinality({i \in 1..Len(s) : s[i] = c})

\* s.find(c) for a one-character c, as a 1-based index (0 when absent)
Find(s, c) == IF \E i \in 1..Len(s) : s[i] = c
              THEN CHOOSE i \in 1..Len(s) : s[i] = c /\ \A j \in 1..(i - 1) : s[j] # c
              ELSE 0

\* s.lstrip(chars), s.rstrip(chars), s.strip(chars) for a set of characters
RECURSIVE LStrip(_, _)
LStrip(s, cs) == IF s # <<>> /\ Head(s) \in cs THEN LStrip(Tail(s), cs) ELSE s
RECURSIVE RStrip(_, _)
RStrip(s, cs) == IF s # <<>> /\ s[Len(s)] \in cs THEN RStrip(SubSeq(s, 1, Len(s) - 1), cs) ELSE s
Strip(s, cs) == RStrip(LStrip(s, cs), cs)

\* the whitespace str.strip() removes by default, among the model's characters
Whitespace == {" ", "\n"}

\* s.split(sep) for a one-character sep: always at least one token
RECURSIVE Split(_, _)
Split(s, sep) ==
    LET k == Find(s, sep)
    IN  IF k = 0 THEN <<s>>
        ELSE <<SubSeq(s, 1, k - 1)>> \o Split(SubSeq(s, k + 1, Len(s)), sep)

\* sep.join(parts)
RECURSIVE Join(_, _)
Join(parts, sep) ==
    IF parts = <<>> THEN <<>>
    ELSE IF Len(parts) = 1 THEN parts[1]
    ELSE parts[1] \o sep \o Join(Tail(parts), sep)

\* lexicographic str < str by code point
RECURSIVE StrLess(_, _)
StrLess(a, b) ==
    IF b = <<>> THEN FALSE
    ELSE IF a = <<>> THEN TRUE
    ELSE IF Head(a) # Head(b) THEN Ord(Head(a)) < Ord(Head(b))
    ELSE StrLess(Tail(a), Tail(b))

\* list.pop() of a non-empty list: its last element
Last(s) == s[Len(s)]
Range(s) == {s[i] : i \in 1..Len(s)}

(***************************************************************************)
(* String literals of the source.                                          *)
(***************************************************************************)
s_num    == <<"n", "u", "m">>
s_num2f  == <<"n", "u", "m", "2", "f">>
s_pct    == <<"p", "c", "t">>
s_unit   == <<"u", "n", "i", "t">>
s_err    == <<"e", "r", "r">>
s_label  == <<"l", "a", "b", "e", "l">>
s_pivot  == <<"p", "i", "v", "o", "t">>
s_group  == <<"g", "r", "o", "u", "p">>
s__group == <<"_">> \o s_group
s__err   == <<"_">> \o s_err
s_memory == <<"m", "e", "m", "o", "r", "y">>
s_bytes  == <<"b", "y", "t", "e", "s">>
s_None   == <<"N", "o", "n", "e">>
s_unit_group == s_unit \o s__group
s_link_end   == <<"<", "/", "a", ">">>

(***************************************************************************)
(* Column classifier (report.py 570-611).                                  *)
(***************************************************************************)
\* name.split("_").pop()
Suffix(n) == Last(Split(n, "_"))

is_dimension(n) ==
    Suffix(n) \notin {s_num2f, s_num, s_pct, s_group, s_unit, s_err, s_label, s_pivot}

\* `suffix in ("pivot")`: the right operand is the str "pivot", so this is a
\* substring test
is_pivot(n) == IsSubstring(Suffix(n), s_pivot)

is_metric(n) == Suffix(n) \in {s_num2f, s_num, s_pct, s_unit, s_err}

\* `suffix in ("label")`: a substring test on the str "label"
is_label(n) == IsSubstring(Suffix(n), s_label)

\* name.endswith("_group"), the test figures uses for group columns
is_group(n) == EndsWith(n, s__group)

label_from_name(n) ==
    LET words == Split(n, "_")
        kept  == IF Last(words) \in {s_num2f, s_num, s_pct, s_group, s_unit, s_label, s_pivot}
                 THEN SubSeq(words, 1, Len(words) - 1) ELSE words
    IN  Join([i \in 1..Len(kept) |-> Capitalize(kept[i])], <<" ">>)

align_from_name(n) == IF is_metric(n) THEN "right" ELSE "left"

(***************************************************************************)
(* Cell values: None, a number, or text.                                   *)
(***************************************************************************)
None      == [t |-> "none", n |-> 0, s |-> <<>>]
Num(k)    == [t |-> "num", n |-> k, s |-> <<>>]
Text(str) == [t |-> "str", n |-> 0, s |-> str]

RECURSIVE IntStr(_)
IntStr(k) == IF k < 10 THEN <<Digits[k + 1]>>
             ELSE IntStr(k \div 10) \o <<Digits[(k % 10) + 1]>>

\* str(value)
Str(v) == CASE v.t = "none" -> s_None
            [] v.t = "num"  -> IntStr(v.n)
            [] OTHER        -> v.s

(***************************************************************************)
(* Program constants.                                                      *)
(***************************************************************************)
LongTextNewlines == 5
TrimLongMax      == 150

(***************************************************************************)
(* table_entry and add_table (report.py 437-472).                          *)
(***************************************************************************)
s_details_open  == <<"<", "d", "e", "t", "a", "i", "l", "s", ">",
                     "<", "s", "u", "m", "m", "a", "r", "y", ">">>
s_details_mid   == <<"<", "/", "s", "u", "m", "m", "a", "r", "y", ">",
                     "<", "p", "r", "e", ">">>
s_details_close == <<"<", "/", "p", "r", "e", ">",
                     "<", "/", "d", "e", "t", "a", "i", "l", "s", ">">>

\* faulty variant: the threshold compared against the number of lines instead of the
\* number of newline characters
table_entry_by_lines(it, css) ==
    IF it.t = "none" THEN [value |-> None, css_class |-> css]
    ELSE IF it.t = "num" THEN [value |-> it, css_class |-> css \o " numeric"]
    ELSE
        LET trimmed == Strip(Str(it), {NL})
        IN  IF EndsWith(trimmed, s_link_end) \/ Count(trimmed, NL) + 1 < LongTextNewlines
            THEN [value |-> Text(trimmed), css_class |-> css]
            ELSE [value |-> Text(s_details_open \o SubSeq(trimmed, 1, Find(trimmed, NL) - 1)
                                 \o s_details_mid \o trimmed \o s_details_close),
                  css_class |-> "align-left"]

table_entry(it, css) ==
    IF it.t = "none" THEN [value |-> None, css_class |-> css]
    ELSE IF it.t = "num" THEN [value |-> it, css_class |-> css \o " numeric"]
    ELSE
        LET trimmed == Strip(Str(it), {NL})
        IN  IF EndsWith(trimmed, s_link_end) \/ Count(trimmed, NL) < LongTextNewlines
            THEN [value |-> Text(trimmed), css_class |-> css]
            ELSE \* summary = trimmed[: trimmed.find("\n")]
                 [value |-> Text(s_details_open \o SubSeq(trimmed, 1, Find(trimmed, NL) - 1)
                                 \o s_details_mid \o trimmed \o s_details_close),
                  css_class |-> "align-left"]

(***************************************************************************)
(* Group and pivot keys: frozensets of (column name, str(value)) pairs,    *)
(* and the order sorted(keys, key=sorted) puts them in.                    *)
(***************************************************************************)
\* tuple comparison (name, value) < (name, value)
PairLess(p, q) == StrLess(p[1], q[1]) \/ (p[1] = q[1] /\ StrLess(p[2], q[2]))

\* sorted(key): the pairs of a key in ascending order
RECURSIVE SortedPairs(_)
SortedPairs(S) ==
    IF S = {} THEN <<>>
    ELSE LET m == CHOOSE p \in S : \A q \in S \ {p} : PairLess(p, q)
         IN  <<m>> \o SortedPairs(S \ {m})

\* list comparison of two sorted pair lists
RECURSIVE ListLess(_, _)
ListLess(a, b) ==
    IF b = <<>> THEN FALSE
    ELSE IF a = <<>> THEN TRUE
    ELSE IF Head(a) # Head(b) THEN PairLess(Head(a), Head(b))
    ELSE ListLess(Tail(a), Tail(b))

\* sorted(keys, key=sorted)
RECURSIVE SortedKeys(_)
SortedKeys(K) ==
    IF K = {} THEN <<>>
    ELSE LET m == CHOOSE k \in K :
                      \A o \in K \ {k} : ListLess(SortedPairs(k), SortedPairs(o))
         IN  <<m>> \o SortedKeys(K \ {m})

\* frozenset((key, str(row[key])) for key in cols)
KeyOf(row, cols) == {<<cols[i], Str(row[cols[i]])>> : i \in 1..Len(cols)}

\* faulty variant: the row's value compared as it is, without str()
row_in_group_typed(row, group) ==
    \A p \in group : row[p[1]].t = "str" /\ row[p[1]].s = p[2]

row_in_group(row, group) == \A p \in group : Str(row[p[1]]) = p[2]

\* ", ".join(f"{label_from_name(key)}: {value}" for key, value in sorted(group))
GroupTitle(group) ==
    LET ps == SortedPairs(group)
    IN  Join([i \in 1..Len(ps) |-> label_from_name(ps[i][1]) \o <<":", " ">> \o ps[i][2]],
             <<",", " ">>)

\* A row list is carried as the list ix of the positions its rows have in the
\* fetched result R, so that every bar and table line can be traced to its row.

add_table(cols, R, ix, group) ==
    LET headers == [i \in 1..Len(cols) |->
                      [name      |-> cols[i],
                       value     |-> label_from_name(cols[i]),
                       css_class |-> "align-" \o align_from_name(cols[i]),
                       md_class  |-> IF align_from_name(cols[i]) = "left" THEN ":--" ELSE "--:"]]
        body == [r \in 1..Len(ix) |->
                   [i \in 1..Len(headers) |->
                      table_entry(R[ix[r]][headers[i].name], headers[i].css_class)]]
    IN  << [kind |-> "table", headers |-> headers, rows |-> body,
            title |-> IF group # {} THEN GroupTitle(group) ELSE <<>>,
            src |-> ix] >>

(***************************************************************************)
(* column_format and format_unit (report.py 614-648).                      *)
(***************************************************************************)
s_MILLISECONDS     == <<"M", "I", "L", "L", "I", "S", "E", "C", "O", "N", "D", "S">>
s_BYTES            == <<"B", "Y", "T", "E", "S">>
s_PERCENT          == <<"P", "E", "R", "C", "E", "N", "T">>
s_QUERY_PER_SECOND == <<"Q", "U", "E", "R", "Y", "_", "P", "E", "R", "_",
                        "S", "E", "C", "O", "N", "D">>

\* ([value for name, value in group if name in ("unit", "unit_group")] or [""]).pop():
\* the value of some unit pair of the key ("" when there is none); a key holds at
\* most one pair per column, and figures never builds a key on a column "unit"
format_unit(group) ==
    LET units == {p \in group : p[1] \in {s_unit, s_unit_group}}
        unit  == IF units = {} THEN <<>>
                 ELSE (CHOOSE p \in units :
                          \A q \in units \ {p} : PairLess(q, p))[2]
    IN  CASE unit = s_MILLISECONDS     -> "g"
          [] unit = s_BYTES            -> ".2s"
          [] unit = s_PERCENT          -> ".2%"
          [] unit = s_QUERY_PER_SECOND -> ".2f"
          [] OTHER                     -> "g"

\* faulty variant: the name split as it is written, without lower()
column_format_cased(n, group) ==
    LET words  == Split(n, "_")
        suffix == Last(words)
        rest   == Range(SubSeq(words, 1, Len(words) - 1))
    IN  CASE suffix = s_num2f -> ".2f"
          [] suffix = s_err   -> ".2f"
          [] suffix = s_pct   -> ".2%"
          [] suffix = s_unit  -> format_unit(group)
          [] OTHER -> IF s_memory \in rest \/ s_bytes \in rest THEN ".2s" ELSE ""

column_format(n, group) ==
    LET words  == Split(StrLower(n), "_")
        suffix == Last(words)
        rest   == Range(SubSeq(words, 1, Len(words) - 1))
    IN  CASE suffix = s_num2f -> ".2f"
          [] suffix = s_err   -> ".2f"
          [] suffix = s_pct   -> ".2%"
          [] suffix = s_unit  -> format_unit(group)
          [] OTHER -> IF s_memory \in rest \/ s_bytes \in rest THEN ".2s" ELSE ""

(***************************************************************************)
(* add_bar_trace and add_barchart (report.py 475-567).                     *)
(***************************************************************************)
trim_long(value) ==
    LET v == Str(value)
    IN  IF Len(v) > TrimLongMax \/ NL \in Range(v)
        THEN SubSeq(v, 1, TrimLongMax) \o <<".", ".", ".">>
        ELSE v

NoError == [present |-> FALSE, array |-> <<>>]

\* errors: the dict add_barchart builds, as the list of its (label, array)
\* assignments in order; a later assignment to the same label replaces an earlier
ErrorsHas(errors, label) == \E i \in 1..Len(errors) : errors[i].label = label
ErrorsGet(errors, label) ==
    errors[CHOOSE i \in 1..Len(errors) :
              /\ errors[i].label = label
              /\ \A j \in (i + 1)..Len(errors) : errors[j].label # label].array

\* faulty variant: the `_err` columns plotted as series like the other metrics
Plotted_all(metrics) == metrics

\* the metrics the loop of add_bar_trace does not `continue` past
Plotted(metrics) == SelectSeq(metrics, LAMBDA m : ~EndsWith(m, s__err))

\* The traces add_bar_trace adds to fig, in order. metric and src are
\* bookkeeping: the column a bar series plots and the rows behind its bars.
add_bar_trace(R, ix, dimensions, metrics, errors, labels, label_prefix) ==
    LET x == [r \in 1..Len(ix) |->
                Join([i \in 1..Len(dimensions) |-> Str(R[ix[r]][dimensions[i]])], <<",", " ">>)]
        text == [r \in 1..Len(ix) |->
                   Join([i \in 1..Len(labels) |->
                           label_from_name(labels[i]) \o <<":", " ">>
                             \o trim_long(R[ix[r]][labels[i]])],
                        <<"<", "/", "b", "r", ">">>)]
        plotted == Plotted(metrics)
    IN  [k \in 1..Len(plotted) |->
           LET metric == plotted[k]
               label  == label_from_name(metric)
           IN  [name      |-> label_prefix \o label_from_name(metric),
                x         |-> x,
                y         |-> [r \in 1..Len(ix) |-> R[ix[r]][metric]],
                error_y   |-> IF ErrorsHas(errors, label)
                              THEN [present |-> TRUE, array |-> ErrorsGet(errors, label)]
                              ELSE NoError,
                hovertext |-> text,
                metric    |-> metric,
                src       |-> ix]]

\* The traces of all pivot sets, in sorted(pivot_sets, key=sorted) order
RECURSIVE PivotTraces(_, _, _, _, _, _, _, _)
PivotTraces(pivots, R, ix, pivot_by, dimensions, metrics, errors, labels) ==
    IF pivots = <<>> THEN <<>>
    ELSE
        LET pivot_set  == Head(pivots)
            pivot_rows == IF pivot_set # {}
                          THEN SelectSeq(ix, LAMBDA i : row_in_group(R[i], pivot_set))
                          ELSE ix
            label_prefix == IF pivot_set # {} THEN GroupTitle(pivot_set) \o <<" ">> ELSE <<>>
        IN  add_bar_trace(R, pivot_rows, dimensions, metrics, errors, labels, label_prefix)
              \o PivotTraces(Tail(pivots), R, ix, pivot_by, dimensions, metrics, errors, labels)

\* faulty variant: the sentinel group charted like any other
SkipGroup_never(group) == FALSE

\* group == frozenset([("unit_group", "None")])
SkipGroup(group) == group = {<<s_unit_group, s_None>>}

add_barchart(cols, R, ix, group) ==
    LET dimensions == SelectSeq(cols, is_dimension)
        pivot_by   == SelectSeq(cols, is_pivot)
        metrics    == SelectSeq(cols, is_metric)
        labels     == SelectSeq(cols, is_label)
        errkeys    == SelectSeq(metrics, LAMBDA k : EndsWith(k, s__err))
        \* errors[label_from_name(key[:-4])] = [row[key] for row in rows]
        errors     == [i \in 1..Len(errkeys) |->
                         [label |-> label_from_name(SubSeq(errkeys[i], 1, Len(errkeys[i]) - 4)),
                          array |-> [r \in 1..Len(ix) |-> R[ix[r]][errkeys[i]]]]]
        pivot_sets == {KeyOf(R[ix[r]], pivot_by) : r \in 1..Len(ix)}
    IN  IF metrics = <<>> THEN <<>>
        ELSE IF SkipGroup(group) THEN <<>>
        ELSE << [kind |-> "chart",
                 data |-> PivotTraces(SortedKeys(pivot_sets), R, ix, pivot_by,
                                      dimensions, metrics, errors, labels),
                 yaxis_tickformat |-> column_format(Last(metrics), group),
                 barmode |-> "group",
                 title |-> GroupTitle(group)] >>

(***************************************************************************)
(* figures (report.py 415-434).                                            *)
(***************************************************************************)
group_by_of(cols) == SelectSeq(cols, is_group)

\* set(frozenset(("", ""))) is the set {""}: its one element, the empty str,
\* iterates as a key with no pairs and is falsy, and is modelled as the empty key
DefaultGroups == {{}}

GroupsOf(cols, R) ==
    IF group_by_of(cols) # <<>> /\ R # <<>>
    THEN {KeyOf(R[r], group_by_of(cols)) : r \in 1..Len(R)}
    ELSE DefaultGroups

\* the keys of a set in the order the rows first show them
RECURSIVE FirstSeen(_, _, _)
FirstSeen(K, cols, R) ==
    IF R = <<>> THEN (IF K = {} THEN <<>> ELSE SortedKeys(K))
    ELSE LET k == KeyOf(Head(R), group_by_of(cols))
         IN  IF k \in K THEN <<k>> \o FirstSeen(K \ {k}, cols, Tail(R))
             ELSE FirstSeen(K, cols, Tail(R))

\* faulty variant: the groups visited in the order the rows show them, unsorted
GroupOrder_first_seen(cols, R) == FirstSeen(GroupsOf(cols, R), cols, R)

\* the order the for loop of figures visits the groups in
GroupOrder(cols, R) == SortedKeys(GroupsOf(cols, R))

AllRows(R) == [i \in 1..Len(R) |-> i]

\* group_rows = [row for row in rows if row_in_group(row, group)]
GroupRows(R, group) == SelectSeq(AllRows(R), LAMBDA i : row_in_group(R[i], group))

RECURSIVE FiguresOf(_, _, _)
FiguresOf(gs, cols, R) ==
    IF gs = <<>> THEN <<>>
    ELSE
        LET group      == Head(gs)
            names      == SelectSeq(cols, LAMBDA n : n \notin Range(group_by_of(cols)))
            group_rows == GroupRows(R, group)
        IN  add_table(names, R, group_rows, group)
              \o add_barchart(names, R, group_rows, group)
              \o FiguresOf(Tail(gs), cols, R)

figures(cols, R) == FiguresOf(GroupOrder(cols, R), cols, R)

(***************************************************************************)
(* Specification of figures: a fetched result (columns and rows) is drawn, *)
(* figures is called on it, and may be called again on the same rows in    *)
(* another order.                                                          *)
(***************************************************************************)
c_env         == <<"e", "n", "v">>
c_run_pivot   == <<"r", "u", "n", "_">> \o s_pivot
c_latency_num == <<"l", "a", "t", "e", "n", "c", "y", "_">> \o s_num
c_latency_err == <<"l", "a", "t", "e", "n", "c", "y">> \o s__err
c_unit_group  == s_unit_group
c_env_group   == c_env \o s__group
c_note_label  == <<"n", "o", "t", "e", "_">> \o s_label
c_count_num   == <<"c", "o", "u", "n", "t", "_">> \o s_num

ColumnSets ==
    { <<c_env, c_latency_num, c_latency_err>>,
      <<c_run_pivot, c_latency_num, c_latency_err>>,
      <<c_unit_group, c_latency_num>>,
      <<c_env_group, c_unit_group, c_count_num>>,
      <<c_env, c_note_label>>,
      <<c_run_pivot, c_note_label, c_latency_num, c_latency_err, c_count_num>> }

\* the values the store may return in a column
ValuesOf(c) ==
    CASE c = c_env         -> {Text(<<"a">>), Text(<<"b">>)}
      [] c = c_run_pivot   -> {Text(<<"p">>), Text(<<"q">>)}
      [] c = c_latency_num -> {Num(1), Num(2)}
      [] c = c_latency_err -> {Num(3), Num(4)}
      [] c = c_unit_group  -> {None, Text(s_None), Text(s_BYTES)}
      [] c = c_env_group   -> {Num(1), Text(<<"2">>)}
      [] c = c_note_label  -> {Text(<<"h", "i">>)}
      [] c = c_count_num   -> {Num(5)}

RowsOf(cols) == {r \in [Range(cols) -> UNION {ValuesOf(c) : c \in Range(cols)}] :
                    \A c \in Range(cols) : r[c] \in ValuesOf(c)}

RowSeqs(cols) == UNION {[1..n -> RowsOf(cols)] : n \in 0..MaxRows}

NotCalled == [called |-> FALSE, groups |-> <<>>]

\* rows with the rows at positions i and j exchanged
Swap(R, i, j) == [k \in 1..Len(R) |-> IF k = i THEN R[j] ELSE IF k = j THEN R[i] ELSE R[k]]

InitFigures ==
    /\ columns \in ColumnSets
    /\ rows \in RowSeqs(columns)
    /\ result = <<>>
    /\ locals = NotCalled

\* figures(table_template, columns, rows)
figures_call ==
    /\ ~locals.called
    /\ result' = figures(columns, rows)
    /\ locals' = [called |-> TRUE, groups |-> GroupOrder(columns, rows)]
    /\ UNCHANGED <<columns, rows>>

\* the same rows fetched in another order, and figures called on them
figures_reordered ==
    /\ locals.called
    /\ \E i, j \in 1..Len(rows) :
          /\ i < j
          /\ rows[i] # rows[j]
          /\ rows' = Swap(rows, i, j)
          /\ result' = figures(columns, rows')
          /\ locals' = [called |-> TRUE, groups |-> GroupOrder(columns, rows')]
    /\ UNCHANGED columns

(***************************************************************************)
(* Specification of the chart format: figures is called on a one-row       *)
(* result whose metric columns range over the names column_format tells    *)
(* apart and whose unit_group column ranges over the units format_unit     *)
(* tells apart.                                                            *)
(***************************************************************************)
c_x_pct == <<"x", "_">> \o s_pct

FormatSuffixes == {s_num, s_num2f, s_pct, s_unit, s_err}

FormatWords == {<<"x">>, s_memory, s_bytes, <<"x">> \o s_memory}

\* metric column names: up to MaxTokens - 1 words and a metric suffix joined by
\* `_`, as written and capitalized
FormatNames ==
    LET plain == {Join(ws \o <<sfx>>, <<"_">>) :
                    ws \in UNION {[1..n -> FormatWords] : n \in 0..(MaxTokens - 1)},
                    sfx \in FormatSuffixes}
    IN  plain \cup {Capitalize(n) : n \in plain}

FormatGroupColumns == { <<>>, <<c_unit_group>>, <<c_env_group>>, <<c_env_group, c_unit_group>> }

FormatColumnSets ==
    {g \o <<c_env>> \o ms :
        g \in FormatGroupColumns,
        ms \in {<<m>> : m \in FormatNames}
                \cup {<<c_x_pct, m>> : m \in FormatNames \ {c_x_pct}}
                \cup {<<m, c_note_label>> : m \in FormatNames}}

FormatValuesOf(c) ==
    CASE c = c_unit_group -> {None, Text(s_MILLISECONDS), Text(s_BYTES), Text(s_PERCENT),
                              Text(s_QUERY_PER_SECOND), Text(s_bytes)}
      [] c = c_env_group  -> {Num(1)}
      [] c = c_env        -> {Text(<<"a">>)}
      [] c = c_note_label -> {Text(<<"h", "i">>)}
      [] OTHER            -> {Num(1)}

FormatRowsOf(cols) == {r \in [Range(cols) -> UNION {FormatValuesOf(c) : c \in Range(cols)}] :
                          \A c \in Range(cols) : r[c] \in FormatValuesOf(c)}

InitFormat ==
    /\ columns \in FormatColumnSets
    /\ rows \in {<<r>> : r \in FormatRowsOf(columns)}
    /\ result = <<>>
    /\ locals = NotCalled

(***************************************************************************)
(* Specification of the classifier: a column name is drawn and the role    *)
(* tests figures and add_barchart apply to every column are evaluated.     *)
(***************************************************************************)
Tokens == { s_num, s_num2f, s_pct, s_unit, s_err, s_label, s_pivot, s_group,
            <<>>, <<"p">>, <<"l", "a", "b">>, <<"x">>, c_env }

\* column names of 1..MaxTokens tokens joined by `_`, the empty name excepted
Names == {Join(ts, <<"_">>) : ts \in UNION {[1..n -> Tokens] : n \in 1..MaxTokens}} \ {<<>>}

NoRoles == [done |-> FALSE, dimension |-> FALSE, metric |-> FALSE, label |-> FALSE,
            pivot |-> FALSE, group |-> FALSE]

InitClassify ==
    /\ name \in Names
    /\ roles = NoRoles

classify ==
    /\ ~roles.done
    /\ roles' = [done      |-> TRUE,
                 dimension |-> is_dimension(name),
                 metric    |-> is_metric(name),
                 label     |-> is_label(name),
                 pivot     |-> is_pivot(name),
                 group     |-> is_group(name)]
    /\ UNCHANGED name

(***************************************************************************)
(* Specification of table_entry: a cell value is drawn and rendered.       *)
(***************************************************************************)
TextLines == {<<>>, <<"a">>}

\* texts of 1..MaxLines lines, with or without newlines around them and with or
\* without a closing link tag at the end
Texts ==
    { lead \o Join(ls, <<NL>>) \o link \o trail :
        ls \in UNION {[1..n -> TextLines] : n \in 1..MaxLines},
        lead \in {<<>>, <<NL>>}, link \in {<<>>, s_link_end}, trail \in {<<>>, <<NL>>} }

Items == {None, Num(1)} \cup {Text(t) : t \in Texts}

NoEntry == [done |-> FALSE, out |-> [value |-> None, css_class |-> ""]]

InitTable ==
    /\ item \in Items
    /\ css_class \in {"align-left", "align-right"}
    /\ entry = NoEntry

table_entry_call ==
    /\ ~entry.done
    /\ entry' = [done |-> TRUE, out |-> table_entry(item, css_class)]
    /\ UNCHANGED <<item, css_class>>

(***************************************************************************)
(* Specification of read_query: a file is drawn and read line by line.     *)
(***************************************************************************)
l_title  == <<"-", "-", " ", "T", "i", "t", "l", "e">>
l_desc   == <<"-", "-", " ", "D", "e", "s", "c", " ", "l", "i", "n", "e">>
l_select == <<"S", "E", "L", "E", "C", "T", " ", "1">>
l_bare   == <<"-", "-">>
l_blank  == <<>>

LineBodies == {l_title, l_desc, l_select, l_bare, l_blank}

\* the lines iterating a file yields: every line but the last ends in a newline,
\* the last may or may not, and no line is empty
RawFiles ==
    { [i \in 1..Len(bs) |-> IF i < Len(bs) \/ nl THEN bs[i] \o <<NL>> ELSE bs[i]] :
        bs \in UNION {[1..n -> LineBodies] : n \in 0..MaxFile}, nl \in BOOLEAN }

Files == {f \in RawFiles : \A i \in 1..Len(f) : f[i] # <<>>}

NoReturn == [done |-> FALSE, desc |-> <<>>, query |-> <<>>, title |-> <<>>]

InitRead ==
    /\ file \in Files
    /\ pos = 1
    /\ query = <<>>
    /\ title = <<>>
    /\ desc = <<>>
    /\ ret = NoReturn

\* faulty variant: comment lines taken as metadata wherever they stand
InMetadata_anywhere(line, q) == StartsWith(line, <<"-", "-">>)

\* line.startswith("--") and not query
InMetadata(line, q) == StartsWith(line, <<"-", "-">>) /\ q = <<>>

\* one iteration of `for line in f`
read_line ==
    /\ ~ret.done
    /\ pos <= Len(file)
    /\ LET line == file[pos]
       IN  IF InMetadata(line, query)
           THEN IF title = <<>>
                THEN /\ title' = LStrip(line, {"-", " "})
                     /\ UNCHANGED <<desc, query>>
                ELSE /\ desc' = desc \o LStrip(line, {"-", " "})
                     /\ UNCHANGED <<title, query>>
           ELSE /\ query' = query \o line
                /\ UNCHANGED <<title, desc>>
    /\ pos' = pos + 1
    /\ UNCHANGED <<file, ret>>

\* return desc.strip(), query.strip(), title.strip()
read_return ==
    /\ ~ret.done
    /\ pos > Len(file)
    /\ ret' = [done  |-> TRUE,
               desc  |-> Strip(desc, Whitespace),
               query |-> Strip(query, Whitespace),
               title |-> Strip(title, Whitespace)]
    /\ UNCHANGED <<file, pos, query, title, desc>>

(***************************************************************************)
(* Specification of print_report's main path: add_figures runs the report  *)
(* entries against the store, then the report is rendered.                 *)
(***************************************************************************)
Titles  == {<<>>, <<"T">>}
Queries == {"q1", "q2"}

\* what the store returns for a query: result.keys() and result.fetchall()
Store(q) ==
    IF q = "q1"
    THEN [columns |-> <<c_env, c_latency_num>>,
          rows    |-> << (c_env :> Text(<<"a">>)) @@ (c_latency_num :> Num(1)) >>]
    ELSE [columns |-> <<c_unit_group, c_latency_num>>,
          rows    |-> << (c_unit_group :> None) @@ (c_latency_num :> Num(2)),
                         (c_unit_group :> Text(s_BYTES)) @@ (c_latency_num :> Num(1)) >>]

\* Report objects as read_report builds them: results_file is set for every
\* entry or for none (basedir), figures starts empty
ReportLists ==
    UNION { [1..n -> [title : Titles, query : Queries, results_file : {b}, figures : {<<>>}]] :
              n \in 0..MaxEntries, b \in BOOLEAN }

InitReport ==
    /\ reports \in ReportLists
    /\ idx = 1
    /\ executed = <<>>
    /\ fetched = <<>>
    /\ csv = <<>>
    /\ pc = "add_figures"
    /\ raised_at = 0
    /\ rendered = FALSE

\* faulty variant: setup queries skipped before they are executed
ExecutedBy_titled(e) == e.title # <<>>

\* connection.execute(text(entry.query)) is called for every entry
ExecutedBy(e) == TRUE

\* one iteration of the loop of add_figures, the store answering
add_figures_entry ==
    /\ pc = "add_figures"
    /\ idx <= Len(reports)
    /\ LET e == reports[idx]
       IN  /\ executed' = IF ExecutedBy(e) THEN Append(executed, idx) ELSE executed
           /\ IF e.title = <<>>
              THEN UNCHANGED <<fetched, csv, reports>>
              ELSE /\ fetched' = Append(fetched, idx)
                   /\ csv' = IF e.results_file THEN Append(csv, idx) ELSE csv
                   /\ reports' = [reports EXCEPT ![idx].figures =
                                     figures(Store(e.query).columns, Store(e.query).rows)]
    /\ idx' = idx + 1
    /\ UNCHANGED <<pc, raised_at, rendered>>

\* connection.execute raises: nothing catches it, in add_figures or its callers
add_figures_execute_raises ==
    /\ pc = "add_figures"
    /\ idx <= Len(reports)
    /\ executed' = Append(executed, idx)
    /\ pc' = "raised"
    /\ raised_at' = idx
    /\ UNCHANGED <<reports, idx, fetched, csv, rendered>>

\* result.fetchall() raises, for a titled entry
add_figures_fetch_raises ==
    /\ pc = "add_figures"
    /\ idx <= Len(reports)
    /\ reports[idx].title # <<>>
    /\ executed' = Append(executed, idx)
    /\ fetched' = Append(fetched, idx)
    /\ pc' = "raised"
    /\ raised_at' = idx
    /\ UNCHANGED <<reports, idx, csv, rendered>>

\* return reports
add_figures_return ==
    /\ pc = "add_figures"
    /\ idx > Len(reports)
    /\ pc' = "render"
    /\ UNCHANGED <<reports, idx, executed, fetched, csv, raised_at, rendered>>

\* output.write(main_template.render(reports=reports, ...))
print_report_render ==
    /\ pc = "render"
    /\ rendered' = TRUE
    /\ pc' = "done"
    /\ UNCHANGED <<reports, idx, executed, fetched, csv, raised_at>>

(***************************************************************************)
(* The specifications. Each runs one part of the program; the state of the *)
(* parts it does not run stays as constructed.                             *)
(***************************************************************************)
IdleClassify == name = c_env /\ roles = NoRoles
IdleFigures  == columns = <<>> /\ rows = <<>> /\ result = <<>> /\ locals = NotCalled
IdleTable    == item = None /\ css_class = "align-left" /\ entry = NoEntry
IdleRead     == file = <<>> /\ pos = 1 /\ query = <<>> /\ title = <<>> /\ desc = <<>>
                /\ ret = NoReturn
IdleReport   == reports = <<>> /\ idx = 1 /\ executed = <<>> /\ fetched = <<>> /\ csv = <<>>
                /\ pc = "idle" /\ raised_at = 0 /\ rendered = FALSE

Init == InitReport /\ IdleClassify /\ IdleFigures /\ IdleTable /\ IdleRead

Next ==
    \/ add_figures_entry /\ UNCHANGED <<classify_vars, figures_vars, table_vars, read_vars>>
    \/ add_figures_execute_raises
         /\ UNCHANGED <<classify_vars, figures_vars, table_vars, read_vars>>
    \/ add_figures_fetch_raises
         /\ UNCHANGED <<classify_vars, figures_vars, table_vars, read_vars>>
    \/ add_figures_return /\ UNCHANGED <<classify_vars, figures_vars, table_vars, read_vars>>
    \/ print_report_render /\ UNCHANGED <<classify_vars, figures_vars, table_vars, read_vars>>

Spec == Init /\ [][Next]_vars

InitC == InitClassify /\ IdleFigures /\ IdleTable /\ IdleRead /\ IdleReport
NextC == classify /\ UNCHANGED <<figures_vars, table_vars, read_vars, report_vars>>
SpecClassify == InitC /\ [][NextC]_vars

InitF == InitFigures /\ IdleClassify /\ IdleTable /\ IdleRead /\ IdleReport
NextF ==
    \/ figures_call /\ UNCHANGED <<classify_vars, table_vars, read_vars, report_vars>>
    \/ figures_reordered /\ UNCHANGED <<classify_vars, table_vars, read_vars, report_vars>>
SpecFigures == InitF /\ [][NextF]_vars

InitFmt == InitFormat /\ IdleClassify /\ IdleTable /\ IdleRead /\ IdleReport
NextFmt == figures_call /\ UNCHANGED <<classify_vars, table_vars, read_vars, report_vars>>
SpecFormat == InitFmt /\ [][NextFmt]_vars

InitT == InitTable /\ IdleClassify /\ IdleFigures /\ IdleRead /\ IdleReport
NextT == table_entry_call /\ UNCHANGED <<classify_vars, figures_vars, read_vars, report_vars>>
SpecTable == InitT /\ [][NextT]_vars

InitR == InitRead /\ IdleClassify /\ IdleFigures /\ IdleTable /\ IdleReport
NextR ==
    \/ read_line /\ UNCHANGED <<classify_vars, figures_vars, table_vars, report_vars>>
    \/ read_return /\ UNCHANGED <<classify_vars, figures_vars, table_vars, report_vars>>
SpecRead == InitR /\ [][NextR]_vars

(***************************************************************************)
(* Properties of figures and add_barchart (SpecFigures).                   *)
(***************************************************************************)
Charts == {f \in 1..Len(result) : result[f].kind = "chart"}
Tables == {f \in 1..Len(result) : result[f].kind = "table"}

\* the `_err` column paired with a metric column: latency_num -> latency_err
PairedErr(metric) ==
    LET words == Split(metric, "_")
    IN  Join(SubSeq(words, 1, Len(words) - 1), <<"_">>) \o s__err

\* C1: every series of a metric column not ending in `_err` whose paired `_err`
\* column is in the result carries an error array as long as its y array, whose
\* i-th element is the `_err` value of the row that supplied the i-th y value.
C1_ErrorArrayFollowsRows ==
    locals.called =>
      \A f \in Charts : \A t \in 1..Len(result[f].data) :
        LET tr  == result[f].data[t]
            err == PairedErr(tr.metric)
        IN  (~EndsWith(tr.metric, s__err) /\ err \in Range(columns)) =>
              /\ tr.error_y.present
              /\ Len(tr.error_y.array) = Len(tr.y)
              /\ \A i \in 1..Len(tr.y) : tr.error_y.array[i] = rows[tr.src[i]][err]

\* C2: the groups figures enumerates partition the rows: every row is selected
\* for exactly one group and shown in exactly one table, once; two rows share a
\* table iff their group columns agree in string form; with no group column
\* there is one group, with the empty key, holding all rows.
C2_GroupsPartitionRows ==
    locals.called =>
      LET gcols == {c \in Range(columns) : EndsWith(c, s__group)}
      IN  /\ Cardinality(Tables) = Len(locals.groups)
          /\ \A i \in 1..Len(rows) :
               /\ Cardinality({g \in 1..Len(locals.groups) :
                                 row_in_group(rows[i], locals.groups[g])}) = 1
               /\ Cardinality({f \in Tables : i \in Range(result[f].src)}) = 1
               /\ \A f \in Tables :
                    Cardinality({k \in 1..Len(result[f].src) : result[f].src[k] = i}) <= 1
          /\ \A i, j \in 1..Len(rows) :
               (\E f \in Tables : {i, j} \subseteq Range(result[f].src))
                 <=> (\A c \in gcols : Str(rows[i][c]) = Str(rows[j][c]))
          /\ \A f \in Tables : Len(result[f].rows) = Len(result[f].src)
          /\ gcols = {} =>
               /\ locals.groups = <<{}>>
               /\ \A f \in Tables : result[f].src = AllRows(rows)

\* C2 witness: three rows in two groups, None and the text "None" in one group
C2_Witness ==
    /\ locals.called
    /\ Len(locals.groups) = 2
    /\ \E i, j \in 1..Len(rows) :
         /\ c_unit_group \in Range(columns)
         /\ rows[i][c_unit_group] = None
         /\ rows[j][c_unit_group] = Text(s_None)

\* C5: for a result with zero rows, whatever its columns, figures returns an
\* empty table and no chart object.
C5_EmptyResultHasNoChart ==
    (locals.called /\ rows = <<>>) =>
      /\ Charts = {}
      /\ Cardinality(Tables) = 1
      /\ \A f \in Tables : result[f].rows = <<>>

\* C6: when unit_group is the only group column, there is a metric column and
\* every row stringifies to "None" in unit_group, figures returns no chart and
\* at least one table.
UnitNoneOnly ==
    /\ rows # <<>>
    /\ {c \in Range(columns) : EndsWith(c, s__group)} = {s_unit_group}
    /\ \E c \in Range(columns) : is_metric(c)
    /\ \A i \in 1..Len(rows) : Str(rows[i][s_unit_group]) = s_None

C6_UnitNoneGroupHasNoChart ==
    (locals.called /\ UnitNoneOnly) => (Charts = {} /\ Tables # {})

\* C6 witness: such a result, with a null and a text "None", after the call
C6_Witness ==
    /\ locals.called
    /\ UnitNoneOnly
    /\ \E i, j \in 1..Len(rows) :
         rows[i][s_unit_group] = None /\ rows[j][s_unit_group] = Text(s_None)

\* what is rendered, in order: each figure's kind and title
Rendering(res) == [f \in 1..Len(res) |-> <<res[f].kind, res[f].title>>]

\* C10: the groups are visited in ascending order of their sorted pair lists,
\* their tables are rendered in that order, and calling figures on the same
\* rows in another order enumerates the same keys and renders in the same order.
C10_GroupOrderIgnoresRowOrder ==
    /\ [](locals.called =>
            /\ \A a, b \in 1..Len(locals.groups) :
                 a < b => ListLess(SortedPairs(locals.groups[a]), SortedPairs(locals.groups[b]))
            /\ Range(locals.groups) =
                 IF \E c \in Range(columns) : EndsWith(c, s__group)
                 THEN IF rows = <<>> THEN {{}}
                      ELSE {{<<c, Str(rows[i][c])>> :
                               c \in {d \in Range(columns) : EndsWith(d, s__group)}} :
                            i \in 1..Len(rows)}
                 ELSE {{}})
    /\ [][(locals.called /\ locals'.called) =>
            /\ locals'.groups = locals.groups
            /\ Rendering(result') = Rendering(result)]_vars

\* C10 witness: a call on rows whose first row belongs to the second group
C10_Witness ==
    /\ locals.called
    /\ Len(locals.groups) >= 2
    /\ row_in_group(rows[1], locals.groups[2])

\* the rows of the group a chart is drawn for: those of the table before it
ChartRows(f) == result[f - 1].src

\* C11: a chart has (distinct pivot keys among its group's rows) x (metric
\* columns not ending in `_err`) series, in ascending pivot-key order and, for
\* one pivot key, in the column order of the metrics; every row of the group is
\* behind the series of exactly one pivot key; x, y and hover text of a series
\* have one entry per row of its pivot partition, in row order; no column
\* ending in `_err` is a series of its own.
C11_SeriesPerPivotAndMetric ==
    locals.called =>
      \A f \in Charts :
        LET names   == SelectSeq(columns, LAMBDA c : ~EndsWith(c, s__group))
            pcols   == {c \in Range(names) : is_pivot(c)}
            mcols   == SelectSeq(names, LAMBDA c : is_metric(c) /\ ~EndsWith(c, s__err))
            dims    == SelectSeq(names, is_dimension)
            G       == ChartRows(f)
            PKey(i) == {<<c, Str(rows[i][c])>> : c \in pcols}
            keys    == {PKey(G[k]) : k \in 1..Len(G)}
            data    == result[f].data
            nm      == Len(mcols)
            block(t) == ((t - 1) \div nm) + 1
        IN  /\ Len(data) = Cardinality(keys) * nm
            /\ \A t \in 1..Len(data) :
                 LET tr == data[t]
                     key == PKey(tr.src[1])
                 IN  /\ tr.metric = mcols[((t - 1) % nm) + 1]
                     /\ ~EndsWith(tr.metric, s__err)
                     /\ tr.src # <<>>
                     /\ tr.src = SelectSeq(G, LAMBDA i : PKey(i) = key)
                     /\ Len(tr.x) = Len(tr.src)
                     /\ Len(tr.y) = Len(tr.src)
                     /\ Len(tr.hovertext) = Len(tr.src)
                     /\ \A k \in 1..Len(tr.src) :
                          /\ tr.y[k] = rows[tr.src[k]][tr.metric]
                          /\ tr.x[k] = Join([d \in 1..Len(dims) |-> Str(rows[tr.src[k]][dims[d]])],
                                            <<",", " ">>)
            /\ \A t, u \in 1..Len(data) :
                 block(t) < block(u) =>
                   ListLess(SortedPairs(PKey(data[t].src[1])),
                            SortedPairs(PKey(data[u].src[1])))
            /\ \A k \in 1..Len(G) :
                 nm > 0 =>
                   Cardinality({b \in 1..Cardinality(keys) :
                                  G[k] \in Range(data[((b - 1) * nm) + 1].src)}) = 1

\* C11 witness: a chart of two pivot keys and two plotted metrics beside an
\* `_err` column, over three rows
C11_Witness ==
    /\ locals.called
    /\ Len(rows) = 3
    /\ c_latency_err \in Range(columns)
    /\ \E f \in Charts : Len(result[f].data) = 4

(***************************************************************************)
(* Properties of the chart format (SpecFormat).                            *)
(***************************************************************************)
\* the formats the generic rendering stands for
Generic == {"g", ""}

\* the name's trailing `_`-delimited token, lower-cased, is sfx
HasSuffix(n, sfx) == StrLower(n) = sfx \/ EndsWith(StrLower(n), <<"_">> \o sfx)

\* the lower-cased, `_`-split name holds the token w
HasToken(n, w) == w \in Range(Split(StrLower(n), "_"))

\* the last metric column in column order
LastMetric ==
    LET ms == {i \in 1..Len(columns) : is_metric(columns[i])}
    IN  columns[CHOOSE i \in ms : \A j \in ms : j <= i]

\* the unit value of the group chart f is built for, <<>> when it has none
UnitOf(f) ==
    IF c_unit_group \in Range(columns)
    THEN Str(rows[ChartRows(f)[1]][c_unit_group])
    ELSE <<>>

FormatOfUnit(u) ==
    CASE u = s_MILLISECONDS     -> Generic
      [] u = s_BYTES            -> {".2s"}
      [] u = s_PERCENT          -> {".2%"}
      [] u = s_QUERY_PER_SECOND -> {".2f"}
      [] OTHER                  -> Generic

FormatOf(n, u) ==
    IF HasSuffix(n, s_num2f) \/ HasSuffix(n, s_err) THEN {".2f"}
    ELSE IF HasSuffix(n, s_pct) THEN {".2%"}
    ELSE IF HasSuffix(n, s_unit) THEN FormatOfUnit(u)
    ELSE IF HasToken(n, s_memory) \/ HasToken(n, s_bytes) THEN {".2s"}
    ELSE Generic

\* C12: the y-axis format of every chart is the format of the last metric
\* column in column order, resolved by suffix: num2f and err give ".2f", pct
\* gives ".2%", unit gives the format of the group's unit value (BYTES ".2s",
\* PERCENT ".2%", QUERY_PER_SECOND ".2f", MILLISECONDS, any other and a missing
\* unit generic); with none of these suffixes, ".2s" when the lower-cased
\* `_`-split name holds the token memory or bytes, and generic otherwise.
C12_AxisFormatBySuffix ==
    locals.called =>
        \A f \in Charts : result[f].yaxis_tickformat \in FormatOf(LastMetric, UnitOf(f))

\* a chart of two metrics, the last a capitalized name with the token memory
\* and the suffix unit, in a group of two columns whose unit is BYTES
C12_Witness ==
    /\ locals.called
    /\ c_env_group \in Range(columns)
    /\ c_x_pct \in Range(columns)
    /\ \E f \in Charts :
          /\ LastMetric = Capitalize(s_memory \o <<"_">> \o s_unit)
          /\ UnitOf(f) = s_BYTES
          /\ result[f].yaxis_tickformat = ".2s"

(***************************************************************************)
(* Properties of the classifier (SpecClassify).                            *)
(***************************************************************************)
\* the number of roles the tests give a classified name
RoleCount ==
    Cardinality({r \in {"dimension", "metric", "label", "pivot", "group"} : roles[r]})

\* C3: every column name gets exactly one role, decided by the token after the
\* last `_`: metric iff it is one of num, num2f, pct, unit, err; label iff it is
\* `label`; pivot iff it is `pivot`; group iff it is `group`; dimension otherwise.
C3_ExactlyOneRole ==
    roles.done =>
      LET token == Last(Split(name, "_"))
      IN  /\ RoleCount = 1
          /\ roles.metric <=> token \in {s_num, s_num2f, s_pct, s_unit, s_err}
          /\ roles.label <=> token = s_label
          /\ roles.pivot <=> token = s_pivot
          /\ roles.group <=> token = s_group
          /\ roles.dimension <=>
               token \notin {s_num, s_num2f, s_pct, s_unit, s_err, s_label, s_pivot, s_group}

\* C13: a column name with no `_` is a dimension and has no other role,
\* whatever it is, the vocabulary words num, pct, unit, err, label, pivot and
\* group included. Stated for those vocabulary words, the names the claim
\* singles out.
C13_NoUnderscoreIsDimension ==
    (/\ roles.done
     /\ "_" \notin Range(name)
     /\ name \in {s_num, s_pct, s_unit, s_err, s_label, s_pivot, s_group}) =>
      /\ roles.dimension
      /\ ~roles.metric
      /\ ~roles.label
      /\ ~roles.pivot

(***************************************************************************)
(* Properties of table_entry (SpecTable).                                  *)
(***************************************************************************)
IsWidget(v) == v.t = "str" /\ StartsWith(v.s, s_details_open)
Widget(summary, full) ==
    Text(s_details_open \o summary \o s_details_mid \o full \o s_details_close)
FirstLine(str) == Split(str, NL)[1]
LineCount(str) == Len(Split(str, NL))

\* C7 as claimed: a text value that is not link markup is rendered as a
\* disclosure widget iff it has at least 5 newline-delimited lines, with its
\* first line as the summary, and verbatim otherwise. Stated for the values
\* that neither begin nor end with a newline, whose lines are beyond dispute.
C7_WidgetFromFiveLines ==
    (/\ entry.done
     /\ item.t = "str"
     /\ item.s = Strip(item.s, {NL})
     /\ ~EndsWith(item.s, s_link_end)) =>
      /\ IsWidget(entry.out.value) <=> LineCount(item.s) >= 5
      /\ IsWidget(entry.out.value) => entry.out.value = Widget(FirstLine(item.s), item.s)
      /\ LineCount(item.s) < 5 => entry.out.value = item

\* C7 as amended: with `trimmed` the value less its leading and trailing
\* newlines, a text value whose trimmed form does not end in `</a>` is rendered
\* as a disclosure widget iff trimmed has at least 6 lines (5 newlines); the
\* summary is then the first line of trimmed; otherwise trimmed is the cell.
C7_WidgetFromSixLines ==
    (entry.done /\ item.t = "str") =>
      LET trimmed == Strip(item.s, {NL})
      IN  ~EndsWith(trimmed, s_link_end) =>
            /\ IsWidget(entry.out.value) <=> LineCount(trimmed) >= 6
            /\ IsWidget(entry.out.value) =>
                 /\ entry.out.value = Widget(FirstLine(trimmed), trimmed)
                 /\ entry.out.css_class = "align-left"
            /\ ~IsWidget(entry.out.value) =>
                 /\ entry.out.value = Text(trimmed)
                 /\ entry.out.css_class = css_class

\* C7 witness: a text of exactly 6 lines rendered as a widget
C7_Witness ==
    /\ entry.done
    /\ item.t = "str"
    /\ ~EndsWith(Strip(item.s, {NL}), s_link_end)
    /\ LineCount(Strip(item.s, {NL})) = 6
    /\ IsWidget(entry.out.value)

(***************************************************************************)
(* Properties of read_query (SpecRead).                                    *)
(***************************************************************************)
IsComment(line) == StartsWith(line, <<"-", "-">>)

\* no non-comment line has been read yet
MetadataPhase == \A k \in 1..(pos - 1) : IsComment(file[k])

\* the lines from the first non-comment line on, concatenated
RECURSIVE Concat(_)
Concat(ls) == IF ls = <<>> THEN <<>> ELSE Head(ls) \o Concat(Tail(ls))
BodyLines ==
    IF \A k \in 1..Len(file) : IsComment(file[k]) THEN <<>>
    ELSE SubSeq(file, CHOOSE k \in 1..Len(file) :
                        ~IsComment(file[k]) /\ \A j \in 1..(k - 1) : IsComment(file[j]),
                Len(file))

ExampleFile == << l_title \o <<NL>>, l_desc \o <<NL>>, l_select >>

\* C8: read_query reads in two phases. Before any non-comment line, the first
\* `--` line becomes the title and every further `--` line is appended to the
\* description; from the first non-comment line on no line changes title or
\* description and every line is appended to the query. "-- Title\n-- Desc
\* line\nSELECT 1" gives title "Title", description "Desc line", body
\* "SELECT 1"; a file that does not begin with a comment line gives no title.
C8_TwoPhaseRead ==
    /\ [][pos' = pos + 1 =>
            LET line == file[pos]
            IN  IF MetadataPhase /\ IsComment(line)
                THEN IF pos = 1
                     THEN /\ title' = LStrip(line, {"-", " "})
                          /\ desc' = desc /\ query' = query
                     ELSE /\ desc' = desc \o LStrip(line, {"-", " "})
                          /\ title' = title /\ query' = query
                ELSE /\ title' = title /\ desc' = desc
                     /\ query' = query \o line]_vars
    /\ [](ret.done =>
            /\ file = ExampleFile =>
                 /\ ret.title = <<"T", "i", "t", "l", "e">>
                 /\ ret.desc = <<"D", "e", "s", "c", " ", "l", "i", "n", "e">>
                 /\ ret.query = l_select
            /\ (file = <<>> \/ ~IsComment(file[1])) => ret.title = <<>>
            /\ ret.query = Strip(Concat(BodyLines), Whitespace))

\* C8 witness: a file read to the end that has a title line, then a query
\* line, then a later comment line
C8_Witness ==
    /\ ret.done
    /\ Len(file) >= 3
    /\ IsComment(file[1])
    /\ ~IsComment(file[2])
    /\ IsComment(file[3])

(***************************************************************************)
(* Properties of add_figures and print_report (Spec).                      *)
(***************************************************************************)
\* C4: when the execution or the row fetch of one entry fails, every other
\* entry is still executed and gets its figures, and the report is rendered.
C4_FailureConfinedToEntry ==
    (raised_at # 0 /\ Len(reports) >= 2) =>
      /\ rendered
      /\ \A i \in 1..Len(reports) :
           i # raised_at =>
             /\ i \in Range(executed)
             /\ reports[i].title # <<>> => reports[i].figures # <<>>

\* C9: without a failure, the entries are executed once each, in input order,
\* titled or not; a setup entry (empty title) has no rows fetched, no CSV
\* written and no figures; a titled entry has the figures of its own result.
C9_EveryEntryExecutedOnce ==
    raised_at = 0 =>
      /\ executed = [k \in 1..(idx - 1) |-> k]
      /\ pc \in {"render", "done"} => idx = Len(reports) + 1
      /\ \A i \in 1..Len(reports) :
           IF reports[i].title = <<>> \/ i >= idx
           THEN /\ i \notin Range(fetched)
                /\ i \notin Range(csv)
                /\ reports[i].figures = <<>>
           ELSE /\ Cardinality({k \in 1..Len(fetched) : fetched[k] = i}) = 1
                /\ i \in Range(csv) <=> reports[i].results_file
                /\ reports[i].figures =
                     figures(Store(reports[i].query).columns, Store(reports[i].query).rows)
                /\ reports[i].figures # <<>>

\* C9 witness: a rendered report with a setup entry between two titled ones
C9_Witness ==
    /\ pc = "done"
    /\ Len(reports) = 3
    /\ reports[1].title # <<>>
    /\ reports[2].title = <<>>
    /\ reports[3].title # <<>>
    /\ reports[1].query # reports[3].query

====
